---- MODULE Spec2Model ----
(***************************************************************************)
(* Visibility and access policy of the blogicum request handlers           *)
(* (blogicum/blog/views.py).  The store (posts, comments, categories) and  *)
(* the wall clock are the state; every write view is an action, every read *)
(* view is an operator evaluated against the current store and clock.      *)
(***************************************************************************)
EXTENDS Integers, Sequences, FiniteSets, TLC

\* ---------------------------------------------------------------- bounds
MaxPosts == 2
MaxComments == 1
MaxTime == 1

\* ------------------------------------------------------------ principals
Users == {"alice", "bob"}
Anonymous == "anonymous"
Viewers == Users \cup {Anonymous}

\* Category rows are keyed by their slug; a request may name a slug that
\* has no row.
Slugs == {"news", "misc"}
RequestSlugs == Slugs \cup {"absent"}
Texts == {"a", "b"}
Times == 0..MaxTime

VARIABLES posts, nextPostId, comments, nextCommentId, category_is_published,
          now, response

vars == <<posts, nextPostId, comments, nextCommentId, category_is_published,
          now, response>>

store == <<posts, nextPostId, comments, nextCommentId, category_is_published>>

PostIds == 1..MaxPosts
CommentIds == 1..MaxComments

\* ids a request may name: every id ever handed out, and one never handed out
RequestPostIds == 1..(MaxPosts + 1)
RequestCommentIds == 1..(MaxComments + 1)

PostRecords ==
    [author : Users, category : Slugs, pub_date : Times, is_published : BOOLEAN]

\* the fields PostForm saves from the submitted data
PostForms ==
    [category : Slugs, pub_date : Times, is_published : BOOLEAN]

CommentForms == [text : Texts]

\* -------------------------------------------------------------- outcomes
NotFound == [status |-> "not_found"]
LoginRedirect == [status |-> "redirect_login"]
DetailRedirect == [status |-> "redirect_detail"]
Success == [status |-> "success"]
Found(x) == [status |-> "ok", object |-> x]

Init ==
    /\ posts = << >>
    /\ nextPostId = 1
    /\ comments = << >>
    /\ nextCommentId = 1
    /\ category_is_published \in [Slugs -> BOOLEAN]
    /\ now = 0
    /\ response = [status |-> "none"]

\* -------------------------------------------------------- read predicates

\* get_object_or_404(Post, pk=...)
get_post_or_404(pk) ==
    IF pk \in DOMAIN posts THEN Found(pk) ELSE NotFound

\* mutant: the author is filtered like everybody else
PostDetailView_get_object_NoOwnerBypass(user, pk) ==
    IF get_post_or_404(pk) = NotFound
    THEN NotFound
    ELSE IF ~(/\ posts[pk].is_published
              /\ category_is_published[posts[pk].category]
              /\ posts[pk].pub_date <= now)
         THEN NotFound
         ELSE Found(pk)

\* mutant: pub_date < now in place of pub_date <= now
PostDetailView_get_object_StrictDate(user, pk) ==
    IF get_post_or_404(pk) = NotFound
    THEN NotFound
    ELSE IF posts[pk].author # user
         THEN IF ~(/\ posts[pk].is_published
                   /\ category_is_published[posts[pk].category]
                   /\ posts[pk].pub_date < now)
              THEN NotFound
              ELSE Found(pk)
         ELSE Found(pk)

PostDetailView_get_object(user, pk) ==
    IF get_post_or_404(pk) = NotFound
    THEN NotFound
    ELSE IF posts[pk].author # user
         THEN IF ~(/\ posts[pk].is_published
                   /\ category_is_published[posts[pk].category]
                   /\ posts[pk].pub_date <= now)
              THEN NotFound
              ELSE Found(pk)
         ELSE Found(pk)

\* ------------------------------------------------------- list querysets

\* p precedes q in a listing: newer pub_date first, equal dates by id
Precedes(p, q) ==
    \/ posts[p].pub_date > posts[q].pub_date
    \/ posts[p].pub_date = posts[q].pub_date /\ p < q

RECURSIVE OrderBy(_)
OrderBy(S) ==
    IF S = {}
    THEN << >>
    ELSE LET first == CHOOSE p \in S : \A q \in S \ {p} : Precedes(p, q)
         IN  <<first>> \o OrderBy(S \ {first})

\* CustomListMixin.get_queryset: every post, newest first
CustomListMixin_get_queryset == OrderBy(DOMAIN posts)

\* mutant: the pub_date__lte filter is left out
IndexHome_get_queryset_NoDateFilter ==
    SelectSeq(CustomListMixin_get_queryset,
              LAMBDA p : /\ posts[p].is_published
                         /\ category_is_published[posts[p].category])

\* mutant: pub_date__lt in place of pub_date__lte
IndexHome_get_queryset_StrictDate ==
    SelectSeq(CustomListMixin_get_queryset,
              LAMBDA p : /\ posts[p].is_published
                         /\ category_is_published[posts[p].category]
                         /\ posts[p].pub_date < now)

\* mutant: the filter is applied to Post.objects in primary-key order
\* instead of to the mixin's ordered queryset
IndexHome_get_queryset_ByPk ==
    SelectSeq([i \in 1..MaxPosts |-> i],
              LAMBDA p : /\ p \in DOMAIN posts
                         /\ posts[p].is_published
                         /\ category_is_published[posts[p].category]
                         /\ posts[p].pub_date <= now)

IndexHome_get_queryset ==
    SelectSeq(CustomListMixin_get_queryset,
              LAMBDA p : /\ posts[p].is_published
                         /\ category_is_published[posts[p].category]
                         /\ posts[p].pub_date <= now)

\* get_object_or_404(Category, slug=..., is_published=True)
get_category_or_404(category_slug) ==
    IF category_slug \in Slugs /\ category_is_published[category_slug]
    THEN Found(category_slug)
    ELSE NotFound

\* mutant: the category is looked up without is_published=True
CategoryListView_get_queryset_AnyCategory(category_slug) ==
    IF category_slug \notin Slugs
    THEN NotFound
    ELSE Found(SelectSeq(CustomListMixin_get_queryset,
                         LAMBDA p : /\ posts[p].is_published
                                    /\ category_is_published[posts[p].category]
                                    /\ posts[p].pub_date <= now
                                    /\ posts[p].category = category_slug))

CategoryListView_get_queryset(category_slug) ==
    IF get_category_or_404(category_slug) = NotFound
    THEN NotFound
    ELSE Found(SelectSeq(CustomListMixin_get_queryset,
                         LAMBDA p : /\ posts[p].is_published
                                    /\ category_is_published[posts[p].category]
                                    /\ posts[p].pub_date <= now
                                    /\ posts[p].category = category_slug))

\* get_object_or_404(User, username=...)
get_user_or_404(username) ==
    IF username \in Users THEN Found(username) ELSE NotFound

\* mutant: the owner's profile is filtered like everybody else's
ProfileView_get_queryset_NoOwnerException(user, username) ==
    IF get_user_or_404(username) = NotFound
    THEN NotFound
    ELSE LET queryset == SelectSeq(CustomListMixin_get_queryset,
                                   LAMBDA p : posts[p].author = username)
         IN  Found(SelectSeq(queryset,
                             LAMBDA p : /\ posts[p].pub_date <= now
                                        /\ posts[p].is_published
                                        /\ category_is_published[posts[p].category]))

ProfileView_get_queryset(user, username) ==
    IF get_user_or_404(username) = NotFound
    THEN NotFound
    ELSE LET queryset == SelectSeq(CustomListMixin_get_queryset,
                                   LAMBDA p : posts[p].author = username)
         IN  IF user = username
             THEN Found(queryset)
             ELSE Found(SelectSeq(queryset,
                                  LAMBDA p : /\ posts[p].pub_date <= now
                                             /\ posts[p].is_published
                                             /\ category_is_published[posts[p].category]))

\* ---------------------------------------------------------- write views

\* mutant: the ownership comparison is left out
PostChangeMixin_dispatch_NoOwnerCheck(user, post_id) ==
    IF post_id \notin DOMAIN posts THEN NotFound ELSE Success

\* PostChangeMixin.dispatch: the object must exist and belong to the user
PostChangeMixin_dispatch(user, post_id) ==
    IF post_id \notin DOMAIN posts THEN NotFound
    ELSE IF posts[post_id].author # user THEN DetailRedirect
    ELSE Success

\* CommentChangeMixin.dispatch: the same rule for a comment
CommentChangeMixin_dispatch(user, comment_id) ==
    IF comment_id \notin DOMAIN comments THEN NotFound
    ELSE IF comments[comment_id].author # user THEN DetailRedirect
    ELSE Success

Remove(f, S) == [x \in DOMAIN f \ S |-> f[x]]

\* deleting a post deletes the comments that reference it
CascadeComments(post_id) ==
    Remove(comments, {c \in DOMAIN comments : comments[c].post = post_id})

\* mutant: form_valid keeps the author the submitted data names
PostCreateView_FormAuthor(user) ==
    IF user = Anonymous
    THEN /\ response' = LoginRedirect
         /\ UNCHANGED <<store, now>>
    ELSE \E form \in PostForms, named_author \in Users :
         /\ nextPostId <= MaxPosts
         /\ posts' = posts @@ (nextPostId :>
                [author |-> named_author,
                 category |-> form.category,
                 pub_date |-> form.pub_date,
                 is_published |-> form.is_published])
         /\ nextPostId' = nextPostId + 1
         /\ response' = Success
         /\ UNCHANGED <<comments, nextCommentId, category_is_published, now>>

\* LoginRequiredMixin runs first; form_valid sets the author to request.user
\* before the row is saved, whatever author (named_author) the submitted data
\* names.
PostCreateView(user) ==
    IF user = Anonymous
    THEN /\ response' = LoginRedirect
         /\ UNCHANGED <<store, now>>
    ELSE \E form \in PostForms, named_author \in Users :
         /\ nextPostId <= MaxPosts
         /\ posts' = posts @@ (nextPostId :>
                [author |-> user,
                 category |-> form.category,
                 pub_date |-> form.pub_date,
                 is_published |-> form.is_published])
         /\ nextPostId' = nextPostId + 1
         /\ response' = Success
         /\ UNCHANGED <<comments, nextCommentId, category_is_published, now>>

PostUpdateView(user, post_id) ==
    IF user = Anonymous
    THEN /\ response' = LoginRedirect
         /\ UNCHANGED <<store, now>>
    ELSE IF PostChangeMixin_dispatch(user, post_id) # Success
    THEN /\ response' = PostChangeMixin_dispatch(user, post_id)
         /\ UNCHANGED <<store, now>>
    ELSE \E form \in PostForms :
         /\ posts' = [posts EXCEPT ![post_id] =
                [author |-> @.author,
                 category |-> form.category,
                 pub_date |-> form.pub_date,
                 is_published |-> form.is_published]]
         /\ response' = Success
         /\ UNCHANGED <<nextPostId, comments, nextCommentId,
                        category_is_published, now>>

PostDeleteView(user, post_id) ==
    IF user = Anonymous
    THEN /\ response' = LoginRedirect
         /\ UNCHANGED <<store, now>>
    ELSE IF PostChangeMixin_dispatch(user, post_id) # Success
    THEN /\ response' = PostChangeMixin_dispatch(user, post_id)
         /\ UNCHANGED <<store, now>>
    ELSE /\ posts' = Remove(posts, {post_id})
         /\ comments' = CascadeComments(post_id)
         /\ response' = Success
         /\ UNCHANGED <<nextPostId, nextCommentId, category_is_published, now>>

\* CommentCreateView.dispatch looks the post up before the login check of
\* LoginRequiredMixin runs, and applies no visibility filter to it.
CommentCreateView_dispatch(user, post_id) ==
    IF get_post_or_404(post_id) = NotFound THEN NotFound
    ELSE IF user = Anonymous THEN LoginRedirect
    ELSE Success

CommentCreateView(user, post_id) ==
    IF CommentCreateView_dispatch(user, post_id) # Success
    THEN /\ response' = CommentCreateView_dispatch(user, post_id)
         /\ UNCHANGED <<store, now>>
    ELSE \E form \in CommentForms :
         /\ nextCommentId <= MaxComments
         /\ comments' = comments @@ (nextCommentId :>
                [author |-> user, post |-> post_id, text |-> form.text])
         /\ nextCommentId' = nextCommentId + 1
         /\ response' = Success
         /\ UNCHANGED <<posts, nextPostId, category_is_published, now>>

CommentUpdateView(user, comment_id) ==
    IF user = Anonymous
    THEN /\ response' = LoginRedirect
         /\ UNCHANGED <<store, now>>
    ELSE IF CommentChangeMixin_dispatch(user, comment_id) # Success
    THEN /\ response' = CommentChangeMixin_dispatch(user, comment_id)
         /\ UNCHANGED <<store, now>>
    ELSE \E form \in CommentForms :
         /\ comments' = [comments EXCEPT ![comment_id].text = form.text]
         /\ response' = Success
         /\ UNCHANGED <<posts, nextPostId, nextCommentId,
                        category_is_published, now>>

CommentDeleteView(user, comment_id) ==
    IF user = Anonymous
    THEN /\ response' = LoginRedirect
         /\ UNCHANGED <<store, now>>
    ELSE IF CommentChangeMixin_dispatch(user, comment_id) # Success
    THEN /\ response' = CommentChangeMixin_dispatch(user, comment_id)
         /\ UNCHANGED <<store, now>>
    ELSE /\ comments' = Remove(comments, {comment_id})
         /\ response' = Success
         /\ UNCHANGED <<posts, nextPostId, nextCommentId,
                        category_is_published, now>>

\* ------------------------------------------------------------ the clock
\* timezone.now() read by successive requests never goes backwards
Tick ==
    /\ now < MaxTime
    /\ now' = now + 1
    /\ UNCHANGED <<store, response>>

Next ==
    \/ Tick
    \/ \E user \in Viewers : PostCreateView(user)
    \/ \E user \in Viewers, post_id \in RequestPostIds :
            PostUpdateView(user, post_id)
    \/ \E user \in Viewers, post_id \in RequestPostIds :
            PostDeleteView(user, post_id)
    \/ \E user \in Viewers, post_id \in RequestPostIds :
            CommentCreateView(user, post_id)
    \/ \E user \in Viewers, comment_id \in RequestCommentIds :
            CommentUpdateView(user, comment_id)
    \/ \E user \in Viewers, comment_id \in RequestCommentIds :
            CommentDeleteView(user, comment_id)

Spec == Init /\ [][Next]_vars

\* The post views alone.  No read of a post looks at the comments table and
\* no comment view writes a post, a category or the clock, so the post store
\* reached here is the post store reached under Spec.
NextPosts ==
    \/ Tick
    \/ \E user \in Viewers : PostCreateView(user)
    \/ \E user \in Viewers, post_id \in RequestPostIds :
            PostUpdateView(user, post_id)
    \/ \E user \in Viewers, post_id \in RequestPostIds :
            PostDeleteView(user, post_id)

SpecPosts == Init /\ [][NextPosts]_vars

\* ------------------------------------------------------------ vocabulary
TypeOK ==
    /\ DOMAIN posts \subseteq PostIds
    /\ \A p \in DOMAIN posts : posts[p] \in PostRecords
    /\ nextPostId \in 1..(MaxPosts + 1)
    /\ DOMAIN comments \subseteq CommentIds
    /\ \A c \in DOMAIN comments :
            /\ comments[c].author \in Users
            /\ comments[c].post \in DOMAIN posts
            /\ comments[c].text \in Texts
    /\ nextCommentId \in 1..(MaxComments + 1)
    /\ now \in Times

Range(s) == {s[i] : i \in DOMAIN s}

\* spec.md section 3: published, category published, publishedAt <= now
Live(p) ==
    /\ posts[p].is_published = TRUE
    /\ category_is_published[posts[p].category] = TRUE
    /\ now >= posts[p].pub_date

LivePosts == {p \in DOMAIN posts : Live(p)}

AbsentPostIds == RequestPostIds \ DOMAIN posts

\* ------------------------------------------------------------------- C1
\* C1: the detail read of any existing post by its own author returns the
\* post, whatever is_published, the category's flag and pub_date are.
C1_AuthorAlwaysSeesOwnPost ==
    \A p \in DOMAIN posts :
        PostDetailView_get_object(posts[p].author, p) = Found(p)

\* an unpublished, future-dated post in an unpublished category, read by its author
C1_Witness ==
    \E p \in DOMAIN posts :
        /\ ~posts[p].is_published
        /\ ~category_is_published[posts[p].category]
        /\ posts[p].pub_date > now
        /\ PostDetailView_get_object(posts[p].author, p) = Found(p)

\* ------------------------------------------------------------------- C2
\* C2: for a viewer other than the author (anonymous included) the detail
\* read returns the post iff it is live (pub_date = now is live); a post that
\* is not live gives the NotFound outcome that an absent id gives.
C2_NonAuthorSeesIffLive ==
    \A v \in Viewers : \A p \in DOMAIN posts :
        v # posts[p].author =>
            /\ Live(p) => PostDetailView_get_object(v, p) = Found(p)
            /\ ~Live(p) =>
                /\ PostDetailView_get_object(v, p) = NotFound
                /\ \A absent \in AbsentPostIds :
                     PostDetailView_get_object(v, p)
                        = PostDetailView_get_object(v, absent)

\* a post published exactly now that anonymous gets, next to a hidden one and
\* a deleted id that both give NotFound
C2_Witness ==
    /\ \E p \in DOMAIN posts :
            /\ posts[p].pub_date = now
            /\ PostDetailView_get_object(Anonymous, p) = Found(p)
    /\ \E q \in DOMAIN posts :
            /\ ~Live(q)
            /\ \E v \in Users \ {posts[q].author} :
                    PostDetailView_get_object(v, q) = NotFound
    /\ AbsentPostIds # {}

\* ------------------------------------------------------------------- C3
\* C3: the home listing holds exactly the posts live at request time, each
\* once; it takes no viewer, so an author's own hidden post is left out too.
C3_HomeIsExactlyLive ==
    /\ Range(IndexHome_get_queryset) = LivePosts
    /\ Len(IndexHome_get_queryset) = Cardinality(LivePosts)

\* one listed post next to one hidden post
C3_Witness ==
    /\ \E p \in DOMAIN posts : p \in Range(IndexHome_get_queryset)
    /\ \E q \in DOMAIN posts :
            /\ posts[q].is_published
            /\ category_is_published[posts[q].category]
            /\ posts[q].pub_date > now
            /\ q \notin Range(IndexHome_get_queryset)

\* ------------------------------------------------------------------- C4
\* C4: the profile listing of author A is all of A's posts for A, and A's
\* live posts for anybody else; never a post of another author.
C4_ProfileListing ==
    \A username \in Users : \A v \in Viewers :
        LET r == ProfileView_get_queryset(v, username)
            own == {p \in DOMAIN posts : posts[p].author = username}
        IN  /\ r.status = "ok"
            /\ Range(r.object) = IF v = username THEN own ELSE own \cap LivePosts
            /\ Len(r.object) = Cardinality(Range(r.object))

\* A has a hidden post that A's profile shows to A and to nobody else, while
\* another author's post exists
C4_Witness ==
    \E p \in DOMAIN posts, q \in DOMAIN posts :
        /\ posts[p].author # posts[q].author
        /\ ~Live(p)
        /\ p \in Range(ProfileView_get_queryset(posts[p].author, posts[p].author).object)
        /\ p \notin Range(ProfileView_get_queryset(Anonymous, posts[p].author).object)
        /\ p \notin Range(ProfileView_get_queryset(posts[q].author, posts[p].author).object)

\* ------------------------------------------------------------------- C5
\* C5: the category listing is NotFound for a slug with no category or with an
\* unpublished one; otherwise exactly the live posts of that category.
C5_CategoryListing ==
    \A s \in RequestSlugs :
        LET r == CategoryListView_get_queryset(s)
        IN  IF s \notin Slugs \/ ~category_is_published[s]
            THEN r = NotFound
            ELSE /\ r.status = "ok"
                 /\ Range(r.object) = {p \in LivePosts : posts[p].category = s}
                 /\ Len(r.object) = Cardinality(Range(r.object))

\* a live post listed under its published category, next to an otherwise
\* publishable post whose unpublished category gives NotFound
C5_Witness ==
    \E p \in LivePosts, q \in DOMAIN posts :
        /\ p \in Range(CategoryListView_get_queryset(posts[p].category).object)
        /\ posts[q].is_published
        /\ posts[q].pub_date <= now
        /\ CategoryListView_get_queryset(posts[q].category) = NotFound

\* ------------------------------------------------------------------- C8
NewestFirst(s) ==
    \A i \in DOMAIN s : \A j \in DOMAIN s :
        i < j =>
            \/ posts[s[i]].pub_date > posts[s[j]].pub_date
            \/ posts[s[i]].pub_date = posts[s[j]].pub_date /\ s[i] < s[j]

C6_NonOwnerMutationRejected ==
    [][ /\ \A v \in Viewers : \A p \in DOMAIN posts :
              (v # posts[p].author
                  /\ (PostUpdateView(v, p) \/ PostDeleteView(v, p)))
              => (store' = store /\ response'.status # "success")
        /\ \A v \in Viewers : \A c \in DOMAIN comments :
              (v # comments[c].author
                  /\ (CommentUpdateView(v, c) \/ CommentDeleteView(v, c)))
              => (store' = store /\ response'.status # "success")
      ]_vars

\* a non-owner's request was just redirected, and the post and the comment
\* of another user are still stored
C6_Witness ==
    /\ response = DetailRedirect
    /\ \E p \in DOMAIN posts : \E c \in DOMAIN comments :
            comments[c].author # posts[p].author

\* ------------------------------------------------------------------- C7
\* a post the viewer may not see: not the author's own and not live
Hidden(v, p) == v # posts[p].author /\ ~Live(p)

\* C7: a comment-creation request on a post hidden from the viewer ends as
\* one on an absent post id does: NotFound, and no comment is stored.
C7_HiddenPostCommentIsNotFound ==
    [][ \A v \in Viewers : \A p \in DOMAIN posts :
            (Hidden(v, p) /\ CommentCreateView(v, p))
            => (response' = NotFound /\ comments' = comments)
      ]_vars

\* ------------------------------------------------------------------- C9
\* C9: a creation request stores the row under the requesting user, whatever
\* author the submitted data names, a comment under the post the request
\* names; an anonymous request stores nothing.
C9_CreatedRowsBelongToRequester ==
    [][ /\ \A v \in Viewers :
              PostCreateView(v) =>
                  /\ v = Anonymous => store' = store
                  /\ \A p \in DOMAIN posts' \ DOMAIN posts : posts'[p].author = v
                  /\ comments' = comments
        /\ \A v \in Viewers : \A post_id \in RequestPostIds :
              CommentCreateView(v, post_id) =>
                  /\ v = Anonymous => store' = store
                  /\ \A c \in DOMAIN comments' \ DOMAIN comments :
                        /\ comments'[c].author = v
                        /\ comments'[c].post = post_id
                  /\ posts' = posts
      ]_vars

\* both users have created a post, and one has commented the other's post
C9_Witness ==
    /\ response = Success
    /\ \E p \in DOMAIN posts, q \in DOMAIN posts : posts[p].author # posts[q].author
    /\ \E c \in DOMAIN comments : comments[c].author # posts[comments[c].post].author

\* ------------------------------------------------------------------ C10
Publishable(p) ==
    posts[p].is_published /\ category_is_published[posts[p].category]

SeenInDetail(v, p) == PostDetailView_get_object(v, p) = Found(p)
SeenInHome(p) == p \in Range(IndexHome_get_queryset)

\* at every instant: hidden from both reads before pub_date, shown by both
\* from pub_date on
C10_Gate ==
    \A p \in DOMAIN posts : \A v \in Viewers :
        (Publishable(p) /\ v # posts[p].author) =>
            /\ now < posts[p].pub_date =>
                    PostDetailView_get_object(v, p) = NotFound /\ ~SeenInHome(p)
            /\ now >= posts[p].pub_date => SeenInDetail(v, p) /\ SeenInHome(p)
            /\ SeenInDetail(v, p) <=> SeenInHome(p)

\* across a step that leaves the post and its category alone: a read that
\* showed the post still shows it
C10_Stays ==
    \A p \in DOMAIN posts :
        ( /\ Publishable(p)
          /\ p \in DOMAIN posts'
          /\ posts'[p] = posts[p]
          /\ category_is_published' = category_is_published )
        => /\ SeenInHome(p) => (SeenInHome(p))'
           /\ \A v \in Viewers \ {posts[p].author} :
                SeenInDetail(v, p) => (SeenInDetail(v, p))'

\* C10: for a published post in a published category and a viewer other than
\* the author, detail read and home listing both hide the post while
\* now < pub_date and both show it once now >= pub_date; once shown it stays
\* shown while the post and its category are not changed.
C10_VisibleFromPubDateOn == [](C10_Gate) /\ [][C10_Stays]_vars

\* a post dated after the start of the run whose date the clock has reached
C10_Witness ==
    \E p \in DOMAIN posts :
        /\ Publishable(p)
        /\ posts[p].pub_date > 0
        /\ now >= posts[p].pub_date
        /\ SeenInDetail(Anonymous, p)
        /\ SeenInHome(p)

====
